---- MODULE Spec2Model ----
(***************************************************************************)
(* A model of the habitat supervisor's service specification module,      *)
(* components/sup/src/manager/service/spec.rs: the bind contract          *)
(* validator, the binding grammar, the load-request mapping and the       *)
(* composite bind resolver.                                               *)
(*                                                                         *)
(* Strings that the code only compares are TLA+ strings.  Strings that    *)
(* the code splits or concatenates (the binding grammar) are sequences of *)
(* one-character strings.  Option<T> is None or Some(v): a sequence of    *)
(* no element or of one.                                                   *)
(***************************************************************************)
EXTENDS Integers, Sequences, FiniteSets, TLC

VARIABLES
    spec,            \* the ServiceSpec an operation works on
    package,         \* the PackageInstall's bind contract
    validate_result, \* what validate_binds returned
    bind_str,        \* the binding string ServiceBind::from_str is given
    bind,            \* the ServiceBind that is formatted, or None
    bind_result,     \* what ServiceBind::from_str returned
    svc_load,        \* the load request (protocol::ctl::SvcLoad)
    services,        \* into_composite_spec: the composite's member identities
    bind_map_in,     \* into_composite_spec: the BindMap the caller passes
    bind_map,        \* the BindMap as the resolution loop has consumed it
    base_spec,       \* into_composite_spec: the base spec every member clones
    composite_binds, \* into_composite_spec: the request's composite binds
    specs,           \* into_composite_spec: the member specs pushed so far
    doc,             \* the spec document (TOML text) that is read
    legacy_result,   \* what ServiceSpecLegacy::from_str returned
    spec_result,     \* what ServiceSpec::from_str returned
    write_result,    \* what to_toml_string or to_file returned
    file,            \* the spec file to_file writes: None until written
    named,           \* the legacy specs whose file names are asked for
    file_names,      \* the file names returned so far, in the order of named
    pc               \* the position of the operation under way

validate_vars == <<package, validate_result>>
bind_vars == <<bind_str, bind, bind_result>>
composite_vars ==
    <<services, bind_map_in, bind_map, base_spec, composite_binds, specs>>
schema_vars == <<doc, legacy_result, spec_result, write_result, file>>
name_vars == <<named, file_names>>
vars == <<spec, package, validate_result, bind_str, bind, bind_result,
          svc_load, services, bind_map_in, bind_map, base_spec,
          composite_binds, specs, doc, legacy_result, spec_result,
          write_result, file, named, file_names, pc>>

None == <<>>
Some(v) == <<v>>
Unwrap(o) == o[1]

(***************************************************************************)
(* Bounds of the model.                                                    *)
(***************************************************************************)
MaxRequired == 2
MaxOptional == 1
MaxSpecBinds == 2
MaxSegments == 4
MaxLoadBinds == 2
MaxServices == 2
MaxMappings == 2
MaxDocBinds == 1
MaxNamed == 2

(***************************************************************************)
(* Helpers over sequences and sets.                                        *)
(***************************************************************************)
Range(s) == {s[i] : i \in 1..Len(s)}

SeqsUpTo(S, n) == UNION {[1..k -> S] : k \in 0..n}

\* Every sequence that lists the elements of the finite set S once each:
\* the orders in which a HashSet or a HashMap can be drained.
Orders(S) == {s \in [1..Cardinality(S) -> S] : Range(s) = S}

(***************************************************************************)
(* Data model.                                                             *)
(***************************************************************************)
\* PackageIdent::default(): no origin, no name.
DefaultIdent == [origin |-> "", name |-> "", version |-> None, release |-> None]

\* ServiceGroup::new(app_env, service, group, organization)
ServiceGroupNew(app_env, service, group, organization) ==
    [application_environment |-> app_env, service |-> service,
     group |-> group, organization |-> organization]

\* struct ServiceBind
ServiceBind(name, service_group, service_name) ==
    [name |-> name, service_group |-> service_group, service_name |-> service_name]

\* ServiceBind::is_composite
is_composite(b) == b.service_name # None

\* ServiceSpec::default(): the defaults of the spec file's schema.
DefaultSpec ==
    [ident |-> DefaultIdent,
     group |-> "default",
     application_environment |-> None,
     bldr_url |-> "https://bldr.habitat.sh",
     channel |-> "stable",
     topology |-> "standalone",
     update_strategy |-> "none",
     binds |-> <<>>,
     binding_mode |-> "strict",
     config_from |-> None,
     desired_state |-> "up",
     svc_encrypted_password |-> None,
     composite |-> None]

(***************************************************************************)
(* ServiceSpec::validate_binds                                             *)
(***************************************************************************)
BindNames == {"db", "cache", "extra"}

\* The loop over the required binds: a required name found in svc_binds is
\* removed from it, one not found is pushed onto missing_req_binds.
RECURSIVE ScanRequired(_, _, _)
ScanRequired(req, svc_binds, missing) ==
    IF req = <<>> THEN [svc_binds |-> svc_binds, missing |-> missing]
    ELSE IF Head(req) \in svc_binds
         THEN ScanRequired(Tail(req), svc_binds \ {Head(req)}, missing)
         ELSE ScanRequired(Tail(req), svc_binds, Append(missing, Head(req)))

\* The loop over the optional binds: each one found in svc_binds is removed.
RECURSIVE ScanOptional(_, _)
ScanOptional(opt, svc_binds) ==
    IF opt = <<>> THEN svc_binds
    ELSE IF Head(opt) \in svc_binds
         THEN ScanOptional(Tail(opt), svc_binds \ {Head(opt)})
         ELSE ScanOptional(Tail(opt), svc_binds)

\* The results validate_binds can return: Ok, MissingRequiredBind with the
\* missing list, or InvalidBinds with the leftover set collected into a Vec
\* in the HashSet's iteration order (any order).
validate_binds(s, p) ==
    LET svc_binds == {s.binds[i].name : i \in 1..Len(s.binds)}
        scanned == ScanRequired(p.binds, svc_binds, <<>>)
        rest == ScanOptional(p.binds_optional, scanned.svc_binds)
    IN  IF scanned.missing # <<>>
        THEN {[kind |-> "MissingRequiredBind", names |-> scanned.missing]}
        ELSE IF rest # {}
             THEN {[kind |-> "InvalidBinds", names |-> o] : o \in Orders(rest)}
             ELSE {[kind |-> "Ok", names |-> <<>>]}

\* The bindings a validated spec may hold: any name, standalone or
\* composite-scoped.
ValidateBindSamples ==
    {ServiceBind(n, ServiceGroupNew(None, n, "default", None), sn) :
        n \in BindNames, sn \in {None, Some("web")}}

NoResult == [kind |-> "none", names |-> <<>>]
NoPackage == [binds |-> <<>>, binds_optional |-> <<>>]
NoBindResult == [kind |-> "none", bind |-> None, carried |-> <<>>]

\* SvcLoad::new(): a request that carries no field.
NoLoad ==
    [ident |-> DefaultIdent,
     group |-> None,
     application_environment |-> None,
     bldr_url |-> None,
     bldr_channel |-> None,
     topology |-> None,
     update_strategy |-> None,
     specified_binds |-> None,
     binds |-> <<>>,
     binding_mode |-> None,
     config_from |-> None,
     svc_encrypted_password |-> None]

\* BindMap::new()
EmptyBindMap == [k \in {} |-> <<>>]

\* A spec document with no key.
EmptyDoc ==
    [well_formed |-> TRUE,
     ident |-> None,
     group |-> None,
     application_environment |-> None,
     bldr_url |-> None,
     channel |-> None,
     topology |-> None,
     update_strategy |-> None,
     binds |-> None,
     binding_mode |-> None,
     config_from |-> None,
     desired_state |-> None,
     svc_encrypted_password |-> None,
     composite |-> None]

NoRead == [kind |-> "none", value |-> None]
NoWrite == [kind |-> "none", toml |-> None]

\* The variables of the operations a specification does not exercise.
SchemaIdle ==
    /\ doc = EmptyDoc
    /\ legacy_result = NoRead
    /\ spec_result = NoRead
    /\ write_result = NoWrite
    /\ file = None
ValidateIdle == package = NoPackage /\ validate_result = NoResult
BindIdle == bind_str = <<>> /\ bind = None /\ bind_result = NoBindResult
CompositeIdle ==
    /\ services = <<>>
    /\ bind_map_in = EmptyBindMap
    /\ bind_map = EmptyBindMap
    /\ base_spec = DefaultSpec
    /\ composite_binds = None
    /\ specs = <<>>
LoadIdle == svc_load = NoLoad /\ CompositeIdle
NameIdle == named = <<>> /\ file_names = <<>>

InitValidate ==
    /\ \E b \in SeqsUpTo(ValidateBindSamples, MaxSpecBinds) :
          spec = [DefaultSpec EXCEPT !.binds = b]
    /\ package \in [binds : SeqsUpTo(BindNames, MaxRequired),
                    binds_optional : SeqsUpTo(BindNames, MaxOptional)]
    /\ validate_result = NoResult
    /\ pc = "validate"
    /\ BindIdle
    /\ LoadIdle
    /\ SchemaIdle
    /\ NameIdle

ValidateBinds ==
    /\ pc = "validate"
    /\ validate_result' \in validate_binds(spec, package)
    /\ pc' = "validated"
    /\ UNCHANGED <<spec, package, schema_vars, name_vars, bind_vars, svc_load,
                   composite_vars>>

NextValidate == ValidateBinds

SpecValidate == InitValidate /\ [][NextValidate]_vars

(***************************************************************************)
(* Claims about validate_binds.                                            *)
(***************************************************************************)
SpecBindNames == {spec.binds[i].name : i \in 1..Len(spec.binds)}
RequiredNames == Range(package.binds)
OptionalNames == Range(package.binds_optional)
MissingNames == RequiredNames \ SpecBindNames
UnmatchedNames == SpecBindNames \ (RequiredNames \cup OptionalNames)

\* C1: validate_binds succeeds if and only if every required bind name of the
\* package is among the spec's bind names and every bind name of the spec is a
\* required or an optional bind name of the package, for every list of
\* required names, optional names and spec binds.
C1_ValidateIff ==
    pc = "validated" =>
        (validate_result.kind = "Ok" <=>
            (RequiredNames \subseteq SpecBindNames
             /\ SpecBindNames \subseteq (RequiredNames \cup OptionalNames)))

\* C2: whenever validate_binds fails with MissingRequiredBind, the list it
\* carries is exactly the required bind names absent from the spec's bind
\* names: every absent one is listed and no name the spec declares is listed.
C2_MissingExact ==
    (pc = "validated" /\ validate_result.kind = "MissingRequiredBind") =>
        Range(validate_result.names) = MissingNames

\* C3: validate_binds yields exactly one of success, MissingRequiredBind or
\* InvalidBinds; InvalidBinds results exactly when no required name is missing
\* and some spec bind name is neither required nor optional, and then carries
\* exactly those names; a missing required name gives MissingRequiredBind even
\* if the spec also declares unmatched names.
C3_ErrorKinds ==
    pc = "validated" =>
        /\ validate_result.kind \in {"Ok", "MissingRequiredBind", "InvalidBinds"}
        /\ validate_result.kind = "InvalidBinds" <=>
              (MissingNames = {} /\ UnmatchedNames # {})
        /\ validate_result.kind = "InvalidBinds" =>
              /\ Range(validate_result.names) = UnmatchedNames
              /\ Len(validate_result.names) = Cardinality(UnmatchedNames)
        /\ MissingNames # {} => validate_result.kind = "MissingRequiredBind"

(***************************************************************************)
(* The binding grammar: ServiceBind::from_str and its Display.            *)
(***************************************************************************)
Colon == ":"

\* str::split(sep): the segments between the separators; a string with n
\* separators has n + 1 segments, empty ones included.
RECURSIVE Split(_, _)
Split(s, sep) ==
    IF \A i \in 1..Len(s) : s[i] # sep THEN <<s>>
    ELSE LET p == CHOOSE i \in 1..Len(s) :
                      s[i] = sep /\ \A j \in 1..(i - 1) : s[j] # sep
         IN  <<SubSeq(s, 1, p - 1)>> \o Split(SubSeq(s, p + 1, Len(s)), sep)

\* ServiceGroup::from_str, the service-group grammar
\* [app.env#]service.group[@organization]: None when the text is rejected.
ServiceGroupFromStr(s) ==
    LET by_hash == Split(s, "#")
        app_env == IF Len(by_hash) = 2 THEN Some(by_hash[1]) ELSE None
        rest == by_hash[Len(by_hash)]
        by_at == Split(rest, "@")
        organization == IF Len(by_at) = 2 THEN Some(by_at[2]) ELSE None
        by_dot == Split(by_at[1], ".")
        app_env_ok ==
            \/ Len(by_hash) = 1
            \/ /\ Len(by_hash) = 2
               /\ "@" \notin Range(by_hash[1])
               /\ Len(Split(by_hash[1], ".")) = 2
               /\ \A part \in Range(Split(by_hash[1], ".")) : part # <<>>
        organization_ok ==
            \/ Len(by_at) = 1
            \/ Len(by_at) = 2 /\ by_at[2] # <<>> /\ "." \notin Range(by_at[2])
    IN  IF /\ app_env_ok
           /\ organization_ok
           /\ Len(by_dot) = 2
           /\ by_dot[1] # <<>>
           /\ by_dot[2] # <<>>
        THEN Some(ServiceGroupNew(app_env, by_dot[1], by_dot[2], organization))
        ELSE None

\* The Display of a ServiceGroup.
ServiceGroupToString(g) ==
    (IF g.application_environment # None
     THEN Unwrap(g.application_environment) \o <<"#">> ELSE <<>>)
    \o g.service \o <<".">> \o g.group
    \o (IF g.organization # None THEN <<"@">> \o Unwrap(g.organization)
        ELSE <<>>)

\* A mutant of from_str: the three-segment form read as name:service_name:group.
from_str_swapped(s) ==
    LET values == Split(s, Colon)
    IN  IF ~(Len(values) = 3 \/ Len(values) = 2)
        THEN [kind |-> "InvalidBinding", bind |-> None, carried |-> s]
        ELSE LET group_str == values[Len(values)]
                 group == ServiceGroupFromStr(group_str)
             IN  IF group = None
                 THEN [kind |-> "InvalidServiceGroup", bind |-> None,
                       carried |-> group_str]
                 ELSE IF Len(values) = 3
                      THEN [kind |-> "Ok", carried |-> <<>>,
                            bind |-> Some(ServiceBind(values[1], Unwrap(group),
                                                      Some(values[2])))]
                      ELSE [kind |-> "Ok", carried |-> <<>>,
                            bind |-> Some(ServiceBind(values[1], Unwrap(group),
                                                      None))]

\* impl FromStr for ServiceBind
from_str(s) ==
    LET values == Split(s, Colon)
    IN  IF ~(Len(values) = 3 \/ Len(values) = 2)
        THEN [kind |-> "InvalidBinding", bind |-> None, carried |-> s]
        ELSE LET group_str == values[Len(values)]
                 group == ServiceGroupFromStr(group_str)
             IN  IF group = None
                 THEN [kind |-> "InvalidServiceGroup", bind |-> None,
                       carried |-> group_str]
                 ELSE IF Len(values) = 3
                      THEN [kind |-> "Ok", carried |-> <<>>,
                            bind |-> Some(ServiceBind(values[2], Unwrap(group),
                                                      Some(values[1])))]
                      ELSE [kind |-> "Ok", carried |-> <<>>,
                            bind |-> Some(ServiceBind(values[1], Unwrap(group),
                                                      None))]

\* A mutant of the Display: the composite form written name:service_name:group.
to_string_swapped(b) ==
    IF b.service_name # None
    THEN b.name \o <<Colon>> \o Unwrap(b.service_name) \o <<Colon>>
         \o ServiceGroupToString(b.service_group)
    ELSE b.name \o <<Colon>> \o ServiceGroupToString(b.service_group)

\* impl fmt::Display for ServiceBind
to_string(b) ==
    IF b.service_name # None
    THEN Unwrap(b.service_name) \o <<Colon>> \o b.name \o <<Colon>>
         \o ServiceGroupToString(b.service_group)
    ELSE b.name \o <<Colon>> \o ServiceGroupToString(b.service_group)

\* The segments binding strings are put together from: names, service groups
\* the grammar accepts and texts it rejects.
SegmentSamples ==
    {<<>>,
     <<"w", "e", "b">>,
     <<"d", "b">>,
     <<"r", ".", "c">>,
     <<"r", ".", "c", "@", "o">>,
     <<"a", ".", "e", "#", "r", ".", "c">>,
     <<"r", "@", "o">>}

RECURSIVE Join(_, _)
Join(segments, sep) ==
    IF Len(segments) = 1 THEN segments[1]
    ELSE segments[1] \o <<sep>> \o Join(Tail(segments), sep)

BindStrings ==
    {Join(segs, Colon) :
        segs \in UNION {[1..k -> SegmentSamples] : k \in 1..MaxSegments}}

\* The bindings that are formatted: names and service names with and without
\* a ':', and service groups of every shape.
GroupSamples ==
    {ServiceGroupNew(ae, s, <<"c">>, o) :
        ae \in {None, Some(<<"a", ".", "e">>)},
        s \in {<<"r">>, <<"r", ":", "s">>},
        o \in {None, Some(<<"o">>)}}

FormatBindSamples ==
    {ServiceBind(n, g, sn) :
        n \in {<<>>, <<"d", "b">>, <<"d", ":", "b">>},
        g \in GroupSamples,
        sn \in {None, Some(<<>>), Some(<<"w", "e", "b">>),
                Some(<<"w", ":", "b">>)}}

InitBind ==
    /\ \/ /\ pc = "parse"
          /\ bind_str \in BindStrings
          /\ bind = None
       \/ /\ pc = "format"
          /\ bind_str = <<>>
          /\ bind \in {Some(b) : b \in FormatBindSamples}
    /\ bind_result = NoBindResult
    /\ spec = DefaultSpec
    /\ ValidateIdle
    /\ LoadIdle
    /\ SchemaIdle
    /\ NameIdle

\* bind.to_string()
Display ==
    /\ pc = "format"
    /\ bind_str' = to_string(Unwrap(bind))
    /\ pc' = "parse"
    /\ UNCHANGED <<spec, validate_vars, schema_vars, name_vars, bind, bind_result, svc_load,
                   composite_vars>>

\* ServiceBind::from_str(bind_str)
FromStr ==
    /\ pc = "parse"
    /\ bind_result' = from_str(bind_str)
    /\ pc' = "parsed"
    /\ UNCHANGED <<spec, validate_vars, schema_vars, name_vars, bind_str, bind, svc_load,
                   composite_vars>>

NextBind == Display \/ FromStr

SpecBind == InitBind /\ [][NextBind]_vars

(***************************************************************************)
(* Claims about the binding grammar.                                       *)
(***************************************************************************)
ColonPositions == {i \in 1..Len(bind_str) : bind_str[i] = Colon}
SegmentCount == Cardinality(ColonPositions) + 1

\* The k-th ':'-separated segment of bind_str, from the places of its colons.
SegmentBound(k) ==
    IF k = 0 THEN 0
    ELSE IF k = SegmentCount THEN Len(bind_str) + 1
    ELSE CHOOSE p \in ColonPositions :
             Cardinality({q \in ColonPositions : q < p}) = k - 1
Segment(k) == SubSeq(bind_str, SegmentBound(k - 1) + 1, SegmentBound(k) - 1)

\* C4: from_str splits on ':': 2 segments give a standalone binding (name the
\* first segment, no service_name), 3 segments a composite-scoped one
\* (service_name the first segment, name the second); any other count fails
\* with InvalidBinding carrying the input unchanged; with 2 or 3 segments a
\* service-group segment the grammar rejects fails with the grammar's error.
C4_FromStrSegments ==
    pc = "parsed" =>
        LET group_str == Segment(SegmentCount)
            group == ServiceGroupFromStr(group_str)
        IN  /\ SegmentCount \notin {2, 3} =>
                /\ bind_result.kind = "InvalidBinding"
                /\ bind_result.carried = bind_str
            /\ (SegmentCount \in {2, 3} /\ group = None) =>
                /\ bind_result.kind = "InvalidServiceGroup"
                /\ bind_result.carried = group_str
            /\ (SegmentCount = 2 /\ group # None) =>
                /\ bind_result.kind = "Ok"
                /\ bind_result.bind =
                       Some(ServiceBind(Segment(1), Unwrap(group), None))
            /\ (SegmentCount = 3 /\ group # None) =>
                /\ bind_result.kind = "Ok"
                /\ bind_result.bind =
                       Some(ServiceBind(Segment(2), Unwrap(group), Some(Segment(1))))

C4_Witness ==
    /\ pc = "parsed"
    /\ bind = None
    /\ SegmentCount = 3
    /\ bind_result.kind = "Ok"
    /\ Unwrap(bind_result.bind).service_name = Some(<<"w", "e", "b">>)
    /\ Unwrap(bind_result.bind).name = <<"d", "b">>

\* No ':' in the binding's name, service_name and rendered service group.
NoColon(b) ==
    /\ Colon \notin Range(b.name)
    /\ b.service_name # None => Colon \notin Range(Unwrap(b.service_name))
    /\ Colon \notin Range(ServiceGroupToString(b.service_group))

\* C5: formatting is the inverse of parsing: for every binding whose name,
\* service_name and rendered service group hold no ':', from_str of its
\* to_string is the binding; the rendered string has three ':'-separated
\* segments (service_name:name:service_group) when service_name is present
\* and two (name:service_group) when it is absent.
C5_RoundTrip ==
    (bind # None /\ pc \in {"parse", "parsed"}) =>
        LET b == Unwrap(bind)
        IN  NoColon(b) =>
                /\ SegmentCount = IF b.service_name # None THEN 3 ELSE 2
                /\ b.service_name # None =>
                      /\ Segment(1) = Unwrap(b.service_name)
                      /\ Segment(2) = b.name
                /\ b.service_name = None => Segment(1) = b.name
                /\ Segment(SegmentCount) = ServiceGroupToString(b.service_group)
                /\ pc = "parsed" =>
                      /\ bind_result.kind = "Ok"
                      /\ bind_result.bind = bind

C5_Witness ==
    /\ pc = "parsed"
    /\ bind # None
    /\ NoColon(Unwrap(bind))
    /\ Unwrap(bind).service_name = Some(<<"w", "e", "b">>)
    /\ Unwrap(bind).service_group.organization # None
    /\ bind_result.kind = "Ok"

(***************************************************************************)
(* The load request: IntoServiceSpec for protocol::ctl::SvcLoad.           *)
(***************************************************************************)
\* has_<field>() of the request.
has(load, field) == load[field] # None

\* The identities of the packages a request or a composite names.
WebIdent ==
    [origin |-> "core", name |-> "web", version |-> Some("1.2.3"),
     release |-> Some("20170223130020")]
DbIdent ==
    [origin |-> "core", name |-> "db", version |-> Some("9.6.1"),
     release |-> Some("20170215221136")]
Idents == {WebIdent, DbIdent}

\* The request's binds with no service_name, in the request's order: the
\* second half of partition(|bind| bind.has_service_name()).
standard_binds(binds) == SelectSeq(binds, LAMBDA b : ~is_composite(b))

\* A mutant of into_spec: the request's binds are set unpartitioned.
into_spec_all_binds(load, s) ==
    LET s1 == [s EXCEPT !.ident = load.ident]
        s2 == IF has(load, "group")
              THEN [s1 EXCEPT !.group = Unwrap(load.group)] ELSE s1
        s3 == IF has(load, "application_environment")
              THEN [s2 EXCEPT !.application_environment =
                                  load.application_environment]
              ELSE s2
        s4 == IF has(load, "bldr_url")
              THEN [s3 EXCEPT !.bldr_url = Unwrap(load.bldr_url)] ELSE s3
        s5 == IF has(load, "bldr_channel")
              THEN [s4 EXCEPT !.channel = Unwrap(load.bldr_channel)] ELSE s4
        s6 == IF has(load, "topology")
              THEN [s5 EXCEPT !.topology = Unwrap(load.topology)] ELSE s5
        s7 == IF has(load, "update_strategy")
              THEN [s6 EXCEPT !.update_strategy = Unwrap(load.update_strategy)]
              ELSE s6
        s8 == IF has(load, "specified_binds")
              THEN [s7 EXCEPT !.binds = load.binds] ELSE s7
        s9 == IF has(load, "binding_mode")
              THEN [s8 EXCEPT !.binding_mode = Unwrap(load.binding_mode)]
              ELSE s8
        s10 == IF has(load, "config_from")
               THEN [s9 EXCEPT !.config_from = load.config_from] ELSE s9
        s11 == IF has(load, "svc_encrypted_password")
               THEN [s10 EXCEPT !.svc_encrypted_password =
                                    load.svc_encrypted_password]
               ELSE s10
    IN  [s11 EXCEPT !.composite = None]

\* IntoServiceSpec::into_spec: the spec after the request is applied to s.
into_spec(load, s) ==
    LET s1 == [s EXCEPT !.ident = load.ident]
        s2 == IF has(load, "group")
              THEN [s1 EXCEPT !.group = Unwrap(load.group)] ELSE s1
        s3 == IF has(load, "application_environment")
              THEN [s2 EXCEPT !.application_environment =
                                  load.application_environment]
              ELSE s2
        s4 == IF has(load, "bldr_url")
              THEN [s3 EXCEPT !.bldr_url = Unwrap(load.bldr_url)] ELSE s3
        s5 == IF has(load, "bldr_channel")
              THEN [s4 EXCEPT !.channel = Unwrap(load.bldr_channel)] ELSE s4
        s6 == IF has(load, "topology")
              THEN [s5 EXCEPT !.topology = Unwrap(load.topology)] ELSE s5
        s7 == IF has(load, "update_strategy")
              THEN [s6 EXCEPT !.update_strategy = Unwrap(load.update_strategy)]
              ELSE s6
        s8 == IF has(load, "specified_binds")
              THEN [s7 EXCEPT !.binds = standard_binds(load.binds)] ELSE s7
        s9 == IF has(load, "binding_mode")
              THEN [s8 EXCEPT !.binding_mode = Unwrap(load.binding_mode)]
              ELSE s8
        s10 == IF has(load, "config_from")
               THEN [s9 EXCEPT !.config_from = load.config_from] ELSE s9
        s11 == IF has(load, "svc_encrypted_password")
               THEN [s10 EXCEPT !.svc_encrypted_password =
                                    load.svc_encrypted_password]
               ELSE s10
    IN  [s11 EXCEPT !.composite = None]

\* The bindings a request carries: standalone and composite-scoped ones.
StandaloneCache ==
    ServiceBind("cache", ServiceGroupNew(None, "redis", "cache", Some("acmecorp")),
                None)
StandaloneDb ==
    ServiceBind("db", ServiceGroupNew(None, "postgres", "app", Some("acmecorp")),
                None)
WebDbCustom ==
    ServiceBind("db", ServiceGroupNew(None, "custom", "group", None), Some("web"))
WebDbOther ==
    ServiceBind("db", ServiceGroupNew(None, "other", "group", None), Some("web"))
DbCacheCustom ==
    ServiceBind("cache", ServiceGroupNew(None, "custom", "group", None), Some("db"))

LoadBindSamples == {StandaloneCache, StandaloneDb, WebDbCustom}

\* The values a request carries for the fields it has.
LoadFieldValues ==
    [group |-> {None, Some("jobs")},
     application_environment |-> {None, Some("theinternet.preprod")},
     bldr_url |-> {None, Some("http://example.com/depot")},
     bldr_channel |-> {None, Some("unstable")},
     topology |-> {None, Some("leader")},
     update_strategy |-> {None, Some("rolling")},
     binding_mode |-> {None, Some("relaxed")},
     config_from |-> {None, Some("/only/for/development")},
     svc_encrypted_password |-> {None, Some("secret")}]

\* The requests into_spec is applied with: every combination of carried and
\* absent fields; binds are either not specified or a list of bindings.
Loads ==
    {[ident |-> id, group |-> g, application_environment |-> ae,
      bldr_url |-> u, bldr_channel |-> c, topology |-> t,
      update_strategy |-> us, specified_binds |-> sb.specified,
      binds |-> sb.binds, binding_mode |-> bm, config_from |-> cf,
      svc_encrypted_password |-> pw] :
        id \in Idents,
        g \in LoadFieldValues.group,
        ae \in LoadFieldValues.application_environment,
        u \in LoadFieldValues.bldr_url,
        c \in LoadFieldValues.bldr_channel,
        t \in LoadFieldValues.topology,
        us \in LoadFieldValues.update_strategy,
        bm \in LoadFieldValues.binding_mode,
        cf \in LoadFieldValues.config_from,
        pw \in LoadFieldValues.svc_encrypted_password,
        sb \in {[specified |-> None, binds |-> <<>>]}
               \cup {[specified |-> Some(TRUE), binds |-> b] :
                        b \in SeqsUpTo(LoadBindSamples, MaxLoadBinds)}}

\* A spec as read from a spec file, every field away from its default and
\* from the values the requests carry.
CustomSpec ==
    [ident |-> [origin |-> "acme", name |-> "api", version |-> None,
                release |-> None],
     group |-> "custom",
     application_environment |-> Some("shop.prod"),
     bldr_url |-> "http://depot.example.org",
     channel |-> "dev",
     topology |-> "leader",
     update_strategy |-> "at-once",
     binds |-> <<StandaloneDb>>,
     binding_mode |-> "relaxed",
     config_from |-> Some("/src/api"),
     desired_state |-> "down",
     svc_encrypted_password |-> Some("old-secret"),
     composite |-> Some("shop")]

InitLoad ==
    /\ spec \in {DefaultSpec, CustomSpec}
    /\ svc_load \in Loads
    /\ pc = "load"
    /\ ValidateIdle
    /\ BindIdle
    /\ CompositeIdle
    /\ SchemaIdle
    /\ NameIdle

\* svc_load.into_spec(&mut spec)
IntoSpec ==
    /\ pc = "load"
    /\ spec' = into_spec(svc_load, spec)
    /\ pc' = "loaded"
    /\ UNCHANGED <<validate_vars, schema_vars, name_vars, bind_vars, svc_load, composite_vars>>

NextLoad == IntoSpec

SpecLoad == InitLoad /\ [][NextLoad]_vars

(***************************************************************************)
(* Claims about into_spec.                                                 *)
(***************************************************************************)
\* The value a field of the spec has after the request is applied: the value
\* the request carries when it carries one, the spec's old value otherwise.
Updated(old, carried, unwrap) ==
    IF carried = None THEN old ELSE IF unwrap THEN Unwrap(carried) ELSE carried

\* C10: into_spec is a partial update: each of group,
\* application_environment, bldr_url, channel, topology, update_strategy,
\* binds, binding_mode, config_from and svc_encrypted_password equals the
\* request's value afterwards if the request carries the field and is
\* unchanged otherwise (binds, when specified, become the request's bindings
\* with no service_name); desired_state never changes; the identity is always
\* replaced by the request's.
C10_PartialUpdate ==
    [][(pc = "load" /\ pc' = "loaded") =>
        /\ spec'.ident = svc_load.ident
        /\ spec'.desired_state = spec.desired_state
        /\ spec'.group = Updated(spec.group, svc_load.group, TRUE)
        /\ spec'.application_environment =
              Updated(spec.application_environment,
                      svc_load.application_environment, FALSE)
        /\ spec'.bldr_url = Updated(spec.bldr_url, svc_load.bldr_url, TRUE)
        /\ spec'.channel = Updated(spec.channel, svc_load.bldr_channel, TRUE)
        /\ spec'.topology = Updated(spec.topology, svc_load.topology, TRUE)
        /\ spec'.update_strategy =
              Updated(spec.update_strategy, svc_load.update_strategy, TRUE)
        /\ spec'.binding_mode =
              Updated(spec.binding_mode, svc_load.binding_mode, TRUE)
        /\ spec'.config_from =
              Updated(spec.config_from, svc_load.config_from, FALSE)
        /\ spec'.svc_encrypted_password =
              Updated(spec.svc_encrypted_password,
                      svc_load.svc_encrypted_password, FALSE)
        /\ svc_load.specified_binds = None => spec'.binds = spec.binds
        /\ svc_load.specified_binds # None =>
              /\ \A b \in Range(spec'.binds) :
                    b.service_name = None /\ b \in Range(svc_load.binds)
              /\ \A i \in 1..Len(svc_load.binds) :
                    svc_load.binds[i].service_name = None =>
                        svc_load.binds[i] \in Range(spec'.binds)
              /\ Len(spec'.binds) =
                    Cardinality({i \in 1..Len(svc_load.binds) :
                                    svc_load.binds[i].service_name = None})
    ]_vars

\* A request that carries a group and binds (one of them composite-scoped)
\* but no channel, applied to the spec read from a file.
C10_Witness ==
    /\ pc = "loaded"
    /\ svc_load.group = Some("jobs")
    /\ svc_load.bldr_channel = None
    /\ svc_load.binds = <<WebDbCustom, StandaloneCache>>
    /\ spec.ident = svc_load.ident
    /\ spec.group = "jobs"
    /\ spec.channel = "dev"
    /\ spec.desired_state = "down"
    /\ spec.binds = <<StandaloneCache>>

(***************************************************************************)
(* The composite bind resolver: set_composite_binds.                       *)
(***************************************************************************)
\* HashMap::insert: the entry of key k is set, overwriting one it had.
Insert(map, k, v) ==
    [x \in (DOMAIN map) \cup {k} |-> IF x = k THEN v ELSE map[x]]

\* A mutant of Remove: the entry stays in the map.
RemoveNothing(map, k) == map

\* HashMap::remove: the map without the entry of key k.
Remove(map, k) == [x \in (DOMAIN map) \ {k} |-> map[x]]

\* hcore::package::metadata::BindMapping
BindMapping(bind_name, satisfying_service) ==
    [bind_name |-> bind_name, satisfying_service |-> satisfying_service]

\* A mutant of the first loop: a bind name that final_binds already holds is
\* not inserted again.
RECURSIVE InsertMappingsKeepFirst(_, _, _)
InsertMappingsKeepFirst(final_binds, bind_mappings, s) ==
    IF bind_mappings = <<>> THEN final_binds
    ELSE LET bind_mapping == Head(bind_mappings)
             group == ServiceGroupNew(s.application_environment,
                                      bind_mapping.satisfying_service.name,
                                      s.group, None)
             b == ServiceBind(bind_mapping.bind_name, group,
                              Some(bind_mapping.bind_name))
         IN  IF b.name \in DOMAIN final_binds
             THEN InsertMappingsKeepFirst(final_binds, Tail(bind_mappings), s)
             ELSE InsertMappingsKeepFirst(Insert(final_binds, b.name, b),
                                          Tail(bind_mappings), s)

\* The first loop: each BindMapping of the member's entry becomes a
\* ServiceBind, inserted into final_binds under its bind name.
\* ServiceGroup::new is given the spec's own application environment and
\* group and a package name, which the callers have validated: its expect
\* does not fail.
RECURSIVE InsertMappings(_, _, _)
InsertMappings(final_binds, bind_mappings, s) ==
    IF bind_mappings = <<>> THEN final_binds
    ELSE LET bind_mapping == Head(bind_mappings)
             group == ServiceGroupNew(s.application_environment,
                                      bind_mapping.satisfying_service.name,
                                      s.group, None)
             b == ServiceBind(bind_mapping.bind_name, group,
                              Some(bind_mapping.bind_name))
         IN  InsertMappings(Insert(final_binds, b.name, b),
                            Tail(bind_mappings), s)

\* A mutant of the second loop: an override does not replace an entry that
\* final_binds already holds.
RECURSIVE InsertOverridesKeepFirst(_, _, _)
InsertOverridesKeepFirst(final_binds, binds, s) ==
    IF binds = <<>> THEN final_binds
    ELSE IF /\ Unwrap(Head(binds).service_name) = s.ident.name
            /\ Head(binds).name \notin DOMAIN final_binds
         THEN InsertOverridesKeepFirst(
                  Insert(final_binds, Head(binds).name, Head(binds)),
                  Tail(binds), s)
         ELSE InsertOverridesKeepFirst(final_binds, Tail(binds), s)

\* The second loop: each bind whose service_name is the member's package
\* name is inserted into final_binds under its name.
RECURSIVE InsertOverrides(_, _, _)
InsertOverrides(final_binds, binds, s) ==
    IF binds = <<>> THEN final_binds
    ELSE IF Unwrap(Head(binds).service_name) = s.ident.name
         THEN InsertOverrides(Insert(final_binds, Head(binds).name, Head(binds)),
                              Tail(binds), s)
         ELSE InsertOverrides(final_binds, Tail(binds), s)

\* A mutant of set_composite_binds: the member's entry is read, not removed.
set_composite_binds_keeps_entry(s, bm, binds) ==
    LET from_map == IF s.ident \in DOMAIN bm
                    THEN InsertMappings(EmptyBindMap, bm[s.ident], s)
                    ELSE EmptyBindMap
        final_binds == InsertOverrides(from_map, binds, s)
    IN  {[spec |-> [s EXCEPT !.binds = drained], bind_map |-> bm] :
            drained \in Orders({final_binds[k] : k \in DOMAIN final_binds})}

\* A mutant of set_composite_binds: the collected binds are added to the
\* binds the spec holds.
set_composite_binds_appends(s, bm, binds) ==
    LET from_map == IF s.ident \in DOMAIN bm
                    THEN InsertMappings(EmptyBindMap, bm[s.ident], s)
                    ELSE EmptyBindMap
        final_binds == InsertOverrides(from_map, binds, s)
    IN  {[spec |-> [s EXCEPT !.binds = s.binds \o drained],
          bind_map |-> Remove(bm, s.ident)] :
            drained \in Orders({final_binds[k] : k \in DOMAIN final_binds})}

\* set_composite_binds(spec, bind_map, binds): every (spec, bind_map) the call
\* can leave; the HashMap final_binds is drained in any order.
set_composite_binds(s, bm, binds) ==
    LET from_map == IF s.ident \in DOMAIN bm
                    THEN InsertMappings(EmptyBindMap, bm[s.ident], s)
                    ELSE EmptyBindMap
        final_binds == InsertOverrides(from_map, binds, s)
    IN  {[spec |-> [s EXCEPT !.binds = drained],
          bind_map |-> Remove(bm, s.ident)] :
            drained \in Orders({final_binds[k] : k \in DOMAIN final_binds})}

(***************************************************************************)
(* IntoServiceSpec::into_composite_spec                                    *)
(***************************************************************************)
CompositeName == "shop"

\* A mutant of the base spec: the request's encrypted password is kept.
composite_base_spec_with_password(load, composite_name) ==
    LET s0 == into_spec(load, DefaultSpec)
        s1 == [s0 EXCEPT !.composite = Some(composite_name)]
    IN  [s1 EXCEPT !.config_from = None]

\* The base spec: the request applied to the default spec, the composite
\* set, the encrypted password and config_from cleared.
composite_base_spec(load, composite_name) ==
    LET s0 == into_spec(load, DefaultSpec)
        s1 == [s0 EXCEPT !.composite = Some(composite_name)]
        s2 == [s1 EXCEPT !.svc_encrypted_password = None]
    IN  [s2 EXCEPT !.config_from = None]

\* The request's composite-scoped binds when binds are specified: the first
\* half of partition(|bind| bind.is_composite()).
composite_binds_of(load) ==
    IF has(load, "specified_binds")
    THEN Some(SelectSeq(load.binds, is_composite))
    ELSE None

\* The requests a composite is loaded with: no field carried or every one,
\* binds not specified or a list of standalone and composite-scoped bindings.
OverrideSamples == {WebDbCustom, WebDbOther, DbCacheCustom, StandaloneCache}

CompositeLoads ==
    {[ident |-> [origin |-> "core", name |-> "shop", version |-> None,
                 release |-> None],
      group |-> f.group,
      application_environment |-> f.application_environment,
      bldr_url |-> f.bldr_url, bldr_channel |-> f.bldr_channel,
      topology |-> f.topology, update_strategy |-> f.update_strategy,
      specified_binds |-> sb.specified, binds |-> sb.binds,
      binding_mode |-> f.binding_mode, config_from |-> f.config_from,
      svc_encrypted_password |-> f.svc_encrypted_password] :
        f \in {NoLoad,
               [k \in DOMAIN LoadFieldValues |->
                   CHOOSE v \in LoadFieldValues[k] : v # None]},
        sb \in {[specified |-> None, binds |-> <<>>]}
               \cup {[specified |-> Some(TRUE), binds |-> b] :
                        b \in SeqsUpTo(OverrideSamples, MaxLoadBinds)}}

\* The mappings a composite's package declares for its web member.
MappingSamples ==
    {BindMapping("db", DbIdent),
     BindMapping("db", [DbIdent EXCEPT !.name = "postgres"]),
     BindMapping("cache", [DbIdent EXCEPT !.name = "redis"])}

\* The BindMaps: an entry for the db member, and for the web member either
\* no entry or a list of mappings.
BindMaps ==
    LET db_entry == <<BindMapping("cache", [DbIdent EXCEPT !.name = "redis"])>>
        only_db == [k \in {DbIdent} |-> db_entry]
    IN  {only_db} \cup
        {[k \in Idents |-> IF k = WebIdent THEN m ELSE db_entry] :
            m \in SeqsUpTo(MappingSamples, MaxMappings)}

InitComposite ==
    /\ svc_load \in CompositeLoads
    /\ services \in SeqsUpTo(Idents, MaxServices)
    /\ bind_map_in \in BindMaps
    /\ bind_map = EmptyBindMap
    /\ base_spec = DefaultSpec
    /\ composite_binds = None
    /\ specs = <<>>
    /\ spec = DefaultSpec
    /\ pc = "composite"
    /\ ValidateIdle
    /\ BindIdle
    /\ SchemaIdle
    /\ NameIdle

\* Lines 148-173: the base spec, the composite binds, the empty result.
IntoCompositeSpecBase ==
    /\ pc = "composite"
    /\ base_spec' = composite_base_spec(svc_load, CompositeName)
    /\ composite_binds' = composite_binds_of(svc_load)
    /\ bind_map' = bind_map_in
    /\ specs' = <<>>
    /\ pc' = "members"
    /\ UNCHANGED <<spec, validate_vars, schema_vars, name_vars, bind_vars, svc_load, services,
                   bind_map_in>>

\* Lines 174-182: one turn of the loop over the services.
IntoCompositeSpecMember ==
    /\ pc = "members"
    /\ Len(specs) < Len(services)
    /\ LET service == services[Len(specs) + 1]
           cloned == [base_spec EXCEPT !.ident = service]
       IN  IF composite_binds # None
           THEN \E r \in set_composite_binds(cloned, bind_map,
                                             Unwrap(composite_binds)) :
                   /\ specs' = Append(specs, r.spec)
                   /\ bind_map' = r.bind_map
           ELSE /\ specs' = Append(specs, cloned)
                /\ bind_map' = bind_map
    /\ UNCHANGED <<spec, validate_vars, schema_vars, name_vars, bind_vars, svc_load, services,
                   bind_map_in, base_spec, composite_binds, pc>>

\* Line 183: the loop is over, specs is returned.
IntoCompositeSpecReturn ==
    /\ pc = "members"
    /\ Len(specs) = Len(services)
    /\ pc' = "returned"
    /\ UNCHANGED <<spec, validate_vars, schema_vars, name_vars, bind_vars, svc_load, composite_vars>>

NextComposite ==
    \/ IntoCompositeSpecBase
    \/ IntoCompositeSpecMember
    \/ IntoCompositeSpecReturn

SpecComposite == InitComposite /\ [][NextComposite]_vars

(***************************************************************************)
(* Claims about set_composite_binds and into_composite_spec.               *)
(***************************************************************************)
\* The entry of a BindMap for an identity, empty when it has none.
EntryOf(map, ident) == IF ident \in DOMAIN map THEN map[ident] ELSE <<>>

\* The places in the override list of the binds addressed to a member.
MatchingOverrides(overrides, member) ==
    {i \in 1..Len(overrides) : overrides[i].service_name = Some(member.name)}

\* C6: when set_composite_binds resolves one member, every override whose
\* service_name is the member's package name takes precedence over the
\* map-derived binding of the same bind name: the member's binding of that
\* name is the last such override in list order, never the map-derived one,
\* and map-derived bindings with no matching override are kept.
C6_OverridePrecedence ==
    [][(pc = "members" /\ Len(specs') = Len(specs) + 1
        /\ composite_binds # None) =>
        LET member == services[Len(specs')]
            resolved == specs'[Len(specs')].binds
            overrides == Unwrap(composite_binds)
            matching == MatchingOverrides(overrides, member)
            entry == EntryOf(bind_map, member)
        IN  /\ \A i \in matching :
                  (\A j \in matching :
                      j > i => overrides[j].name # overrides[i].name) =>
                      /\ overrides[i] \in Range(resolved)
                      /\ \A b \in Range(resolved) :
                            b.name = overrides[i].name => b = overrides[i]
            /\ \A k \in 1..Len(entry) :
                  (\A i \in matching :
                      overrides[i].name # entry[k].bind_name) =>
                      \E b \in Range(resolved) :
                          /\ b.name = entry[k].bind_name
                          /\ b.service_name = Some(entry[k].bind_name)
    ]_vars

\* The web member resolved with mappings for db and cache and two overrides
\* of its db bind: the last override and the derived cache bind are kept.
C6_Witness ==
    /\ pc \in {"members", "returned"}
    /\ Len(specs) >= 1
    /\ services[1] = WebIdent
    /\ "db" \in {m.bind_name : m \in Range(EntryOf(bind_map_in, WebIdent))}
    /\ "cache" \in {m.bind_name : m \in Range(EntryOf(bind_map_in, WebIdent))}
    /\ composite_binds = Some(<<WebDbCustom, WebDbOther>>)
    /\ WebDbOther \in Range(specs[1].binds)
    /\ \E b \in Range(specs[1].binds) :
          b.name = "cache" /\ b.service_name = Some("cache")

\* C7: when into_composite_spec expands a composite with a BindMap that holds
\* mappings for a member's identity and the request supplies no override
\* bindings, the member's spec contains the map-derived binding for every
\* mapping of the entry (service_name = Some(bind_name), the group derived
\* from the satisfying service).  Stated for the first member of each
\* identity, and for the last mapping of each bind name.
C7_MapDerivedBinds ==
    pc = "returned" =>
        \A i \in 1..Len(services) :
            LET entry == EntryOf(bind_map_in, services[i])
            IN  (/\ \A j \in 1..(i - 1) : services[j] # services[i]
                 /\ \A b \in Range(svc_load.binds) : b.service_name = None) =>
                    \A k \in 1..Len(entry) :
                        (\A l \in (k + 1)..Len(entry) :
                            entry[l].bind_name # entry[k].bind_name) =>
                            \E b \in Range(specs[i].binds) :
                                /\ b.name = entry[k].bind_name
                                /\ b.service_name = Some(entry[k].bind_name)
                                /\ b.service_group.service =
                                      entry[k].satisfying_service.name

C9_OneSpecPerMember ==
    /\ pc = "returned" => Len(specs) = Len(services)
    /\ pc \in {"members", "returned"} =>
          /\ Len(specs) <= Len(services)
          /\ \A i \in 1..Len(specs) :
                /\ specs[i].ident = services[i]
                /\ specs[i].composite = Some(CompositeName)
                /\ specs[i].svc_encrypted_password = None
                /\ specs[i].config_from = None
          /\ \A i, j \in 1..Len(specs) :
                /\ specs[i].group = specs[j].group
                /\ specs[i].application_environment =
                      specs[j].application_environment
                /\ specs[i].bldr_url = specs[j].bldr_url
                /\ specs[i].channel = specs[j].channel
                /\ specs[i].topology = specs[j].topology
                /\ specs[i].update_strategy = specs[j].update_strategy
                /\ specs[i].binding_mode = specs[j].binding_mode

\* Two different members expanded from a request that carries a password and
\* a config_from.
C9_Witness ==
    /\ pc = "returned"
    /\ Len(specs) = 2
    /\ services[1] # services[2]
    /\ svc_load.svc_encrypted_password # None
    /\ svc_load.config_from # None
    /\ specs[1].group = "jobs"

\* The places of an entry that hold the last mapping of their bind name.
LastMappings(entry) ==
    {k \in 1..Len(entry) :
        \A l \in (k + 1)..Len(entry) :
            entry[l].bind_name # entry[k].bind_name}

\* Whether a binding is the one derived from a mapping for a member spec.
DerivedFrom(b, mapping, s) ==
    /\ b.name = mapping.bind_name
    /\ b.service_name = Some(mapping.bind_name)
    /\ b.service_group.application_environment = s.application_environment
    /\ b.service_group.service = mapping.satisfying_service.name
    /\ b.service_group.group = s.group
    /\ b.service_group.organization = None

\* C15: every binding set_composite_binds derives from a mapping of the
\* member's entry has name = bind_name, service_name = Some(bind_name) and a
\* service group made of the member's application environment, the
\* satisfying service's package name, the member's group and no
\* organization; of several mappings with one bind_name the last in source
\* order wins.  A bind name of the entry that no matching override takes is
\* resolved to exactly the binding derived from its last mapping.
C15_DerivedBinding ==
    [][(pc = "members" /\ Len(specs') = Len(specs) + 1
        /\ composite_binds # None) =>
        LET member == services[Len(specs')]
            resolved == specs'[Len(specs')].binds
            overrides == Unwrap(composite_binds)
            matching == MatchingOverrides(overrides, member)
            entry == EntryOf(bind_map, member)
        IN  \A k \in LastMappings(entry) :
                (\A i \in matching :
                    overrides[i].name # entry[k].bind_name) =>
                    /\ \E b \in Range(resolved) :
                          DerivedFrom(b, entry[k], base_spec)
                    /\ \A b \in Range(resolved) :
                          b.name = entry[k].bind_name =>
                              DerivedFrom(b, entry[k], base_spec)
    ]_vars

\* The web member resolved from two mappings of its db bind, the request
\* carrying an application environment and a group: the bind is the one
\* derived from the second mapping.
C15_Witness ==
    /\ pc \in {"members", "returned"}
    /\ Len(specs) >= 1
    /\ services[1] = WebIdent
    /\ composite_binds = Some(<<DbCacheCustom>>)
    /\ EntryOf(bind_map_in, WebIdent) =
          <<BindMapping("db", DbIdent),
            BindMapping("db", [DbIdent EXCEPT !.name = "postgres"])>>
    /\ base_spec.application_environment # None
    /\ Len(specs[1].binds) = 1
    /\ specs[1].binds[1].service_group.service = "postgres"
    /\ specs[1].binds[1].service_group.group = base_spec.group
    /\ specs[1].binds[1].service_name = Some("db")

\* C17: within one into_composite_spec expansion that resolves bindings,
\* the mappings under one identity key are applied to at most one member:
\* the first member with that identity gets the map-derived bindings (those
\* no matching override takes), and every later member with the same
\* identity gets only the overrides addressed to it.
C17_EntryAppliedOnce ==
    (pc \in {"members", "returned"} /\ composite_binds # None) =>
        \A i \in 1..Len(specs) :
            LET member == services[i]
                overrides == Unwrap(composite_binds)
                matching == MatchingOverrides(overrides, member)
                entry == EntryOf(bind_map_in, member)
            IN  IF \A j \in 1..(i - 1) : services[j] # member
                THEN \A k \in LastMappings(entry) :
                        (\A o \in matching :
                            overrides[o].name # entry[k].bind_name) =>
                            \E b \in Range(specs[i].binds) :
                                DerivedFrom(b, entry[k], base_spec)
                ELSE \A b \in Range(specs[i].binds) :
                        /\ \E o \in matching : overrides[o] = b
                        /\ \A k \in 1..Len(entry) :
                              ~DerivedFrom(b, entry[k], base_spec)

\* The web member listed twice, with mappings for web and one override
\* addressed to web: the first spec holds the derived cache bind, the second
\* only the override.
C17_Witness ==
    /\ pc = "returned"
    /\ services = <<WebIdent, WebIdent>>
    /\ composite_binds = Some(<<WebDbCustom>>)
    /\ EntryOf(bind_map_in, WebIdent) =
          <<BindMapping("cache", [DbIdent EXCEPT !.name = "redis"])>>
    /\ Len(specs[1].binds) = 2
    /\ specs[2].binds = <<WebDbCustom>>

(***************************************************************************)
(* The spec file schemas: ServiceSpecLegacy, its upgrade to the current    *)
(* ServiceSpec, and the reading and writing of the current one.            *)
(***************************************************************************)
\* #[derive(Default)] for ServiceSpecLegacy: the Default of every field's
\* type, an empty String for group, bldr_url and channel.
LegacyDefault ==
    [ident |-> DefaultIdent,
     group |-> "",
     application_environment |-> None,
     bldr_url |-> "",
     channel |-> "",
     topology |-> "standalone",
     update_strategy |-> "none",
     binds |-> <<>>,
     binding_mode |-> "strict",
     config_from |-> None,
     desired_state |-> "up",
     svc_encrypted_password |-> None,
     composite |-> None]

\* PackageIdent::from_str on the ident texts the documents hold: None when
\* the text is no identity.
IdentTexts == {"core/web/1.2.3/20170223130020", "/", "not an ident"}
PackageIdentFromStr(text) ==
    IF text = "core/web/1.2.3/20170223130020" THEN Some(WebIdent)
    ELSE IF text = "/" THEN Some(DefaultIdent)
    ELSE None

\* The values the from_str of each field's type accepts.
Topologies == {"standalone", "leader"}
UpdateStrategies == {"none", "at-once", "rolling"}
BindingModes == {"strict", "relaxed"}
ProcessStates == {"up", "down"}
ApplicationEnvironments == {"theinternet.preprod"}

\* Whether a key of the document is absent or holds a value in a set.
AbsentOrIn(d, key, values) == d[key] = None \/ Unwrap(d[key]) \in values

\* Whether every value of a document deserializes: the ident, the
\* application environment, the enums and each binding string.
ValuesDeserialize(d) ==
    /\ d.ident # None => PackageIdentFromStr(Unwrap(d.ident)) # None
    /\ AbsentOrIn(d, "application_environment", ApplicationEnvironments)
    /\ AbsentOrIn(d, "topology", Topologies)
    /\ AbsentOrIn(d, "update_strategy", UpdateStrategies)
    /\ AbsentOrIn(d, "binding_mode", BindingModes)
    /\ AbsentOrIn(d, "desired_state", ProcessStates)
    /\ d.binds # None =>
          \A i \in 1..Len(Unwrap(d.binds)) :
              from_str(Unwrap(d.binds)[i]).kind = "Ok"

\* toml::from_str into a #[serde(default)] struct: None when the text is
\* malformed or a value does not deserialize; otherwise each key the
\* document holds is deserialized and each absent one keeps the value of the
\* struct's Default.
deserialize(d, default) ==
    IF ~d.well_formed \/ ~ValuesDeserialize(d) THEN None
    ELSE LET plain(key) ==
                 IF d[key] = None THEN default[key] ELSE Unwrap(d[key])
             optional(key) ==
                 IF d[key] = None THEN default[key] ELSE d[key]
         IN  Some(
             [ident |-> IF d.ident = None THEN default.ident
                        ELSE Unwrap(PackageIdentFromStr(Unwrap(d.ident))),
              group |-> plain("group"),
              application_environment |-> optional("application_environment"),
              bldr_url |-> plain("bldr_url"),
              channel |-> plain("channel"),
              topology |-> plain("topology"),
              update_strategy |-> plain("update_strategy"),
              binds |-> IF d.binds = None THEN default.binds
                        ELSE [i \in 1..Len(Unwrap(d.binds)) |->
                                 Unwrap(from_str(Unwrap(d.binds)[i]).bind)],
              binding_mode |-> plain("binding_mode"),
              config_from |-> optional("config_from"),
              desired_state |-> plain("desired_state"),
              svc_encrypted_password |-> optional("svc_encrypted_password"),
              composite |-> optional("composite")])

\* A mutant of the legacy from_str: the identity is not looked at.
legacy_from_str_any_ident(d) ==
    LET parsed == deserialize(d, LegacyDefault)
    IN  IF parsed = None THEN [kind |-> "ServiceSpecParse", value |-> None]
        ELSE [kind |-> "Ok", value |-> parsed]

\* impl FromStr for ServiceSpecLegacy
legacy_from_str(d) ==
    LET parsed == deserialize(d, LegacyDefault)
    IN  IF parsed = None THEN [kind |-> "ServiceSpecParse", value |-> None]
        ELSE IF Unwrap(parsed).ident = DefaultIdent
             THEN [kind |-> "MissingRequiredIdent", value |-> None]
             ELSE [kind |-> "Ok", value |-> parsed]

\* impl FromStr for ServiceSpec, the current schema.
spec_from_str(d) ==
    LET parsed == deserialize(d, DefaultSpec)
    IN  IF parsed = None THEN [kind |-> "ServiceSpecParse", value |-> None]
        ELSE IF Unwrap(parsed).ident = DefaultIdent
             THEN [kind |-> "MissingRequiredIdent", value |-> None]
             ELSE [kind |-> "Ok", value |-> parsed]

\* A mutant of to_latest: the composite is not carried over.
to_latest_without_composite(legacy) ==
    LET s1 == [DefaultSpec EXCEPT
                  !.ident = legacy.ident,
                  !.group = legacy.group,
                  !.application_environment = legacy.application_environment,
                  !.bldr_url = legacy.bldr_url,
                  !.channel = legacy.channel,
                  !.topology = legacy.topology,
                  !.update_strategy = legacy.update_strategy,
                  !.binds = legacy.binds,
                  !.binding_mode = legacy.binding_mode]
        s2 == IF legacy.config_from # None
              THEN [s1 EXCEPT !.config_from = legacy.config_from] ELSE s1
        s3 == [s2 EXCEPT !.desired_state = legacy.desired_state]
    IN  IF legacy.svc_encrypted_password # None
        THEN [s3 EXCEPT !.svc_encrypted_password =
                            legacy.svc_encrypted_password]
        ELSE s3

\* ServiceSpecLegacy::to_latest
to_latest(legacy) ==
    LET s1 == [DefaultSpec EXCEPT
                  !.ident = legacy.ident,
                  !.group = legacy.group,
                  !.application_environment = legacy.application_environment,
                  !.bldr_url = legacy.bldr_url,
                  !.channel = legacy.channel,
                  !.topology = legacy.topology,
                  !.update_strategy = legacy.update_strategy,
                  !.binds = legacy.binds,
                  !.binding_mode = legacy.binding_mode]
        s2 == IF legacy.config_from # None
              THEN [s1 EXCEPT !.config_from = legacy.config_from] ELSE s1
        s3 == [s2 EXCEPT !.desired_state = legacy.desired_state]
        s4 == IF legacy.svc_encrypted_password # None
              THEN [s3 EXCEPT !.svc_encrypted_password =
                                  legacy.svc_encrypted_password]
              ELSE s3
    IN  IF legacy.composite # None
        THEN [s4 EXCEPT !.composite = legacy.composite]
        ELSE s4

\* ServiceSpec::to_toml_string: the document of a spec, refused for the
\* default identity.
to_toml_string(s) ==
    IF s.ident = DefaultIdent
    THEN [kind |-> "MissingRequiredIdent", toml |-> None]
    ELSE [kind |-> "Ok",
          toml |-> Some(
            [well_formed |-> TRUE,
             ident |-> Some(CHOOSE text \in IdentTexts :
                               PackageIdentFromStr(text) = Some(s.ident)),
             group |-> Some(s.group),
             application_environment |-> s.application_environment,
             bldr_url |-> Some(s.bldr_url),
             channel |-> Some(s.channel),
             topology |-> Some(s.topology),
             update_strategy |-> Some(s.update_strategy),
             binds |-> Some([i \in 1..Len(s.binds) |-> to_string(s.binds[i])]),
             binding_mode |-> Some(s.binding_mode),
             config_from |-> s.config_from,
             desired_state |-> Some(s.desired_state),
             svc_encrypted_password |-> s.svc_encrypted_password,
             composite |-> s.composite])]

\* ServiceSpec::to_file: the document is rendered first; the file is then
\* written, or the write fails with ServiceSpecFileIO.  Every (result, file)
\* the call can leave, given the file before.
to_file(s, before) ==
    LET rendered == to_toml_string(s)
    IN  IF rendered.kind # "Ok"
        THEN {[result |-> rendered, file |-> before]}
        ELSE {[result |-> rendered, file |-> rendered.toml],
              [result |-> [kind |-> "ServiceSpecFileIO", toml |-> None],
               file |-> before]}

\* The binding strings of the documents: a standalone binding, a
\* composite-scoped one and a text that is no binding.
DocBindSamples ==
    {<<"d", "b", ":", "r", ".", "c">>,
     <<"w", "e", "b", ":", "d", "b", ":", "r", ".", "c", "@", "o">>,
     <<"w", "i", "n">>}

\* The documents that are read: well-formed ones with every choice of keys
\* (group, bldr_url, update_strategy, binding_mode and desired_state are held
\* or absent together) and of valid and invalid values, and a malformed one.
Docs ==
    {[EmptyDoc EXCEPT !.well_formed = FALSE]} \cup
    {[well_formed |-> TRUE,
      ident |-> id,
      group |-> IF plain THEN Some("jobs") ELSE None,
      application_environment |-> ae,
      bldr_url |-> IF plain THEN Some("http://example.com/depot") ELSE None,
      channel |-> c,
      topology |-> t,
      update_strategy |-> IF plain THEN Some("rolling") ELSE None,
      binds |-> b,
      binding_mode |-> IF plain THEN Some("relaxed") ELSE None,
      config_from |-> cf,
      desired_state |-> IF plain THEN Some("down") ELSE None,
      svc_encrypted_password |-> pw,
      composite |-> co] :
        id \in {None} \cup {Some(text) : text \in IdentTexts},
        plain \in BOOLEAN,
        ae \in {None, Some("theinternet.preprod"), Some("nodot")},
        c \in {None, Some("unstable")},
        t \in {None, Some("leader"), Some("smartest-possible")},
        b \in {None} \cup {Some(l) : l \in SeqsUpTo(DocBindSamples, MaxDocBinds)},
        cf \in {None, Some("/only/for/development")},
        pw \in {None, Some("secret")},
        co \in {None, Some("shop")}}

InitSchema ==
    /\ doc \in Docs
    /\ spec = DefaultSpec
    /\ legacy_result = NoRead
    /\ spec_result = NoRead
    /\ write_result = NoWrite
    /\ file = None
    /\ pc = "read"
    /\ ValidateIdle
    /\ BindIdle
    /\ LoadIdle
    /\ NameIdle

\* ServiceSpecLegacy::from_str(doc)
LegacyFromStr ==
    /\ pc = "read"
    /\ legacy_result' = legacy_from_str(doc)
    /\ pc' = "legacy_read"
    /\ UNCHANGED <<spec, validate_vars, bind_vars, svc_load, composite_vars,
                   name_vars, doc, spec_result, write_result, file>>

\* legacy.to_latest()
ToLatest ==
    /\ pc = "legacy_read"
    /\ legacy_result.kind = "Ok"
    /\ spec' = to_latest(Unwrap(legacy_result.value))
    /\ pc' = "latest"
    /\ UNCHANGED <<validate_vars, bind_vars, svc_load, composite_vars,
                   name_vars, schema_vars>>

\* ServiceSpec::from_str(doc)
SpecFromStr ==
    /\ pc = "read"
    /\ spec_result' = spec_from_str(doc)
    /\ spec' = IF spec_result'.kind = "Ok" THEN Unwrap(spec_result'.value)
               ELSE spec
    /\ pc' = "spec_read"
    /\ UNCHANGED <<validate_vars, bind_vars, svc_load, composite_vars,
                   name_vars, doc, legacy_result, write_result, file>>

\* spec.to_toml_string(), of a default spec or of one that was read
ToTomlString ==
    /\ pc \in {"read", "latest", "spec_read"}
    /\ write_result' = to_toml_string(spec)
    /\ pc' = "serialized"
    /\ UNCHANGED <<spec, validate_vars, bind_vars, svc_load, composite_vars,
                   name_vars, doc, legacy_result, spec_result, file>>

\* spec.to_file(path), of a default spec or of one that was read
ToFile ==
    /\ pc \in {"read", "latest", "spec_read"}
    /\ \E r \in to_file(spec, file) :
          /\ write_result' = r.result
          /\ file' = r.file
    /\ pc' = "written"
    /\ UNCHANGED <<spec, validate_vars, bind_vars, svc_load, composite_vars,
                   name_vars, doc, legacy_result, spec_result>>

NextSchema ==
    \/ LegacyFromStr
    \/ ToLatest
    \/ SpecFromStr
    \/ ToTomlString
    \/ ToFile

SpecSchema == InitSchema /\ [][NextSchema]_vars

(***************************************************************************)
(* Claims about the schemas.                                               *)
(***************************************************************************)
\* C11: upgrading a legacy document that has no channel key (from_str, then
\* to_latest) yields a current spec whose channel is the current schema's
\* default channel ("stable"), not the empty string.
C11_LegacyChannelDefault ==
    (pc = "latest" /\ doc.channel = None) =>
        /\ spec.channel = DefaultSpec.channel
        /\ spec.channel = "stable"

\* C12: to_latest is total and maps every legacy field onto the same-named
\* current field: ident, group, application_environment, bldr_url, channel,
\* topology, update_strategy, binds, binding_mode and desired_state equal the
\* legacy values; config_from, svc_encrypted_password and composite equal
\* the legacy value when it is present and stay unset when it is absent.
C12_ToLatestMapsFields ==
    /\ (pc = "legacy_read" /\ legacy_result.kind = "Ok") => ENABLED ToLatest
    /\ pc = "latest" =>
          LET legacy == Unwrap(legacy_result.value)
          IN  /\ spec.ident = legacy.ident
              /\ spec.group = legacy.group
              /\ spec.application_environment = legacy.application_environment
              /\ spec.bldr_url = legacy.bldr_url
              /\ spec.channel = legacy.channel
              /\ spec.topology = legacy.topology
              /\ spec.update_strategy = legacy.update_strategy
              /\ spec.binds = legacy.binds
              /\ spec.binding_mode = legacy.binding_mode
              /\ spec.desired_state = legacy.desired_state
              /\ \A key \in {"config_from", "svc_encrypted_password",
                             "composite"} :
                    IF legacy[key] # None THEN spec[key] = legacy[key]
                    ELSE spec[key] = None

\* A legacy document with every key upgraded.
C12_Witness ==
    /\ pc = "latest"
    /\ doc.composite = Some("shop")
    /\ doc.config_from # None
    /\ doc.svc_encrypted_password = None
    /\ doc.group = Some("jobs")
    /\ doc.binds # None
    /\ Len(spec.binds) = 1
    /\ spec.composite = Some("shop")
    /\ spec.desired_state = "down"

\* Whether a document's ident is absent or denotes the default identity.
IdentAbsentOrDefault(d) ==
    d.ident = None \/ PackageIdentFromStr(Unwrap(d.ident)) = Some(DefaultIdent)

\* The result a read must give for a document.
ReadRefuses(result, d) ==
    /\ (~d.well_formed \/ ~ValuesDeserialize(d)) =>
          result.kind = "ServiceSpecParse"
    /\ (d.well_formed /\ ValuesDeserialize(d) /\ IdentAbsentOrDefault(d)) =>
          result.kind = "MissingRequiredIdent"
    /\ result.kind = "Ok" => Unwrap(result.value).ident # DefaultIdent

\* C13: a spec with the default identity is never accepted on read or write:
\* well-formed text whose ident is absent or the default identity fails with
\* MissingRequiredIdent, in the legacy schema as in the current one;
\* serializing or writing a spec with the default identity fails with
\* MissingRequiredIdent and writes no file; malformed text or an invalid
\* field value fails with ServiceSpecParse instead.
C13_DefaultIdentRefused ==
    /\ pc = "legacy_read" => ReadRefuses(legacy_result, doc)
    /\ pc = "spec_read" => ReadRefuses(spec_result, doc)
    /\ (pc \in {"serialized", "written"} /\ spec.ident = DefaultIdent) =>
          /\ write_result.kind = "MissingRequiredIdent"
          /\ file = None

\* A legacy document whose ident is the default identity's text, refused.
C13_Witness ==
    /\ pc = "legacy_read"
    /\ doc.ident = Some("/")
    /\ doc.topology = Some("leader")
    /\ legacy_result.kind = "MissingRequiredIdent"

(***************************************************************************)
(* ServiceSpecLegacy::file_name.  The name of an identity is split into    *)
(* characters here, since the file name is built from it.                  *)
(***************************************************************************)
SPEC_FILE_EXT == <<"s", "p", "e", "c">>

\* A mutant of file_name: the origin takes part in the name.
file_name_with_origin(legacy) ==
    legacy.ident.origin \o legacy.ident.name \o <<".">> \o SPEC_FILE_EXT

\* format!("{}.{}", &self.ident.name, SPEC_FILE_EXT)
file_name(legacy) == legacy.ident.name \o <<".">> \o SPEC_FILE_EXT

\* The identities of the specs that are named: two origins, three names (one
\* of them another name followed by the extension), with and without a
\* version and release.
NamedIdents ==
    {[origin |-> o, name |-> n, version |-> v[1], release |-> v[2]] :
        o \in {<<"c", "o", "r", "e">>, <<"a", "c", "m", "e">>},
        n \in {<<"w", "e", "b">>, <<"d", "b">>,
               <<"w", "e", "b", ".", "s", "p", "e", "c">>},
        v \in {<<None, None>>, <<Some("1.2.3"), Some("20170223130020")>>}}

InitFileName ==
    /\ named \in {l \in SeqsUpTo({[LegacyDefault EXCEPT !.ident = id] :
                                     id \in NamedIdents}, MaxNamed) : l # <<>>}
    /\ file_names = <<>>
    /\ spec = DefaultSpec
    /\ pc = "name"
    /\ ValidateIdle
    /\ BindIdle
    /\ LoadIdle
    /\ SchemaIdle

\* legacy.file_name(), of the next spec
FileName ==
    /\ pc = "name"
    /\ Len(file_names) < Len(named)
    /\ file_names' = Append(file_names, file_name(named[Len(file_names) + 1]))
    /\ UNCHANGED <<spec, validate_vars, bind_vars, svc_load, composite_vars,
                   schema_vars, named, pc>>

NextFileName == FileName

SpecFileName == InitFileName /\ [][NextFileName]_vars

\* C14: the file name of a spec is "<name>.spec", built from the name of the
\* identity only: specs with the same name get the same file name whatever
\* their origin, version and release, and specs with different names get
\* different file names.
C14_FileNameFromNameOnly ==
    \A i \in 1..Len(file_names) :
        /\ Len(file_names[i]) = Len(named[i].ident.name) + 5
        /\ SubSeq(file_names[i], 1, Len(named[i].ident.name)) =
               named[i].ident.name
        /\ SubSeq(file_names[i], Len(named[i].ident.name) + 1,
                  Len(file_names[i])) = <<".", "s", "p", "e", "c">>
        /\ \A j \in 1..Len(file_names) :
              (named[i].ident.name = named[j].ident.name) <=>
                  (file_names[i] = file_names[j])

\* Two specs of the same name and of different origins have been named.
C14_Witness ==
    /\ Len(file_names) = 2
    /\ named[1].ident.name = named[2].ident.name
    /\ named[1].ident.origin # named[2].ident.origin
    /\ named[1].ident.version # named[2].ident.version
    /\ file_names[1] = file_names[2]

(***************************************************************************)
(* IntoServiceSpec::update_composite, on the spec of one member of a       *)
(* composite that is already loaded.                                       *)
(***************************************************************************)
\* protocol::types::ServiceBind::has_service_name
has_service_name(b) == b.service_name # None

\* A mutant of update_composite: the binds are resolved whether or not the
\* request specifies binds.
update_composite_always_binds(load, bm, s) ==
    LET s1 == IF has(load, "group")
              THEN [s EXCEPT !.group = Unwrap(load.group)] ELSE s
        s2 == IF has(load, "application_environment")
              THEN [s1 EXCEPT !.application_environment =
                                  load.application_environment]
              ELSE s1
        s3 == IF has(load, "bldr_url")
              THEN [s2 EXCEPT !.bldr_url = Unwrap(load.bldr_url)] ELSE s2
        s4 == IF has(load, "bldr_channel")
              THEN [s3 EXCEPT !.channel = Unwrap(load.bldr_channel)] ELSE s3
        s5 == IF has(load, "topology")
              THEN [s4 EXCEPT !.topology = Unwrap(load.topology)] ELSE s4
        s6 == IF has(load, "update_strategy")
              THEN [s5 EXCEPT !.update_strategy = Unwrap(load.update_strategy)]
              ELSE s5
        composite == SelectSeq(load.binds, has_service_name)
        standard == SelectSeq(load.binds, LAMBDA b : ~has_service_name(b))
    IN  set_composite_binds([s6 EXCEPT !.binds = standard], bm, composite)

\* update_composite(&self, bind_map, spec): every (spec, bind_map) the call
\* can leave.
update_composite(load, bm, s) ==
    LET s1 == IF has(load, "group")
              THEN [s EXCEPT !.group = Unwrap(load.group)] ELSE s
        s2 == IF has(load, "application_environment")
              THEN [s1 EXCEPT !.application_environment =
                                  load.application_environment]
              ELSE s1
        s3 == IF has(load, "bldr_url")
              THEN [s2 EXCEPT !.bldr_url = Unwrap(load.bldr_url)] ELSE s2
        s4 == IF has(load, "bldr_channel")
              THEN [s3 EXCEPT !.channel = Unwrap(load.bldr_channel)] ELSE s3
        s5 == IF has(load, "topology")
              THEN [s4 EXCEPT !.topology = Unwrap(load.topology)] ELSE s4
        s6 == IF has(load, "update_strategy")
              THEN [s5 EXCEPT !.update_strategy = Unwrap(load.update_strategy)]
              ELSE s5
    IN  IF has(load, "specified_binds")
        THEN LET composite == SelectSeq(load.binds, has_service_name)
                 standard ==
                     SelectSeq(load.binds, LAMBDA b : ~has_service_name(b))
             IN  set_composite_binds([s6 EXCEPT !.binds = standard], bm,
                                     composite)
        ELSE {[spec |-> s6, bind_map |-> bm]}

\* The requests a loaded composite is updated with: each of the six fields
\* update_composite reads carried or absent, binding_mode, config_from and
\* svc_encrypted_password carried, binds not specified or a list of
\* standalone and composite-scoped bindings.
UpdateBindSamples == {StandaloneCache, WebDbCustom, DbCacheCustom}

UpdateLoads ==
    {[ident |-> [origin |-> "core", name |-> "shop", version |-> None,
                 release |-> None],
      group |-> g, application_environment |-> ae,
      bldr_url |-> u, bldr_channel |-> c, topology |-> t,
      update_strategy |-> us, specified_binds |-> sb.specified,
      binds |-> sb.binds, binding_mode |-> Some("strict"),
      config_from |-> Some("/only/for/development"),
      svc_encrypted_password |-> Some("secret")] :
        g \in LoadFieldValues.group,
        ae \in LoadFieldValues.application_environment,
        u \in LoadFieldValues.bldr_url,
        c \in LoadFieldValues.bldr_channel,
        t \in {None, Some("standalone")},
        us \in LoadFieldValues.update_strategy,
        sb \in {[specified |-> None, binds |-> <<>>]}
               \cup {[specified |-> Some(TRUE), binds |-> b] :
                        b \in SeqsUpTo(UpdateBindSamples, MaxLoadBinds)}}

\* The specs of the members before the update: every field away from its
\* default and from the values the requests carry, the binds those of an
\* earlier load.
MemberSpecs ==
    {[CustomSpec EXCEPT !.ident = id, !.binds = b] :
        id \in Idents,
        b \in {<<StandaloneDb>>, <<WebDbOther, StandaloneDb>>}}

InitUpdate ==
    /\ spec \in MemberSpecs
    /\ svc_load \in UpdateLoads
    /\ bind_map \in BindMaps
    /\ services = <<>>
    /\ bind_map_in = EmptyBindMap
    /\ base_spec = DefaultSpec
    /\ composite_binds = None
    /\ specs = <<>>
    /\ pc = "update"
    /\ ValidateIdle
    /\ BindIdle
    /\ SchemaIdle
    /\ NameIdle

\* svc_load.update_composite(&mut bind_map, &mut spec)
UpdateComposite ==
    /\ pc = "update"
    /\ \E r \in update_composite(svc_load, bind_map, spec) :
          /\ spec' = r.spec
          /\ bind_map' = r.bind_map
    /\ pc' = "updated"
    /\ UNCHANGED <<validate_vars, bind_vars, schema_vars, name_vars, svc_load,
                   services, bind_map_in, base_spec, composite_binds, specs>>

NextUpdate == UpdateComposite

SpecUpdate == InitUpdate /\ [][NextUpdate]_vars

\* C16: after set_composite_binds the spec's binds hold at most one binding
\* per bind name; each is either derived from a mapping of the member's
\* BindMap entry or an override whose service_name is the member's package
\* name; no binding the spec had before (the standalone bindings of the
\* request included) and no override addressed to another service is
\* retained.
C16_OnlyResolvedBinds ==
    [][(pc = "update" /\ pc' = "updated"
        /\ has(svc_load, "specified_binds")) =>
        LET resolved == spec'.binds
            entry == EntryOf(bind_map, spec.ident)
            Derived(b) ==
                \E k \in 1..Len(entry) : DerivedFrom(b, entry[k], spec')
            Matching(b) ==
                /\ b \in Range(svc_load.binds)
                /\ b.service_name = Some(spec.ident.name)
        IN  /\ \A i, j \in 1..Len(resolved) :
                  resolved[i].name = resolved[j].name => i = j
            /\ \A b \in Range(resolved) : Derived(b) \/ Matching(b)
            /\ \A b \in Range(spec.binds) \cup Range(svc_load.binds) :
                  (~Derived(b) /\ ~Matching(b)) => b \notin Range(resolved)
            /\ \A b \in Range(resolved) :
                  /\ b.service_name # None
                  /\ b \in Range(svc_load.binds) =>
                        b.service_name = Some(spec.ident.name)
    ]_vars

\* The web member, holding an earlier override and a standalone binding,
\* updated with a standalone binding and an override addressed to db against
\* a BindMap with two mappings for web: only the two derived bindings remain.
C16_Witness ==
    /\ pc = "updated"
    /\ spec.ident = WebIdent
    /\ svc_load.specified_binds # None
    /\ svc_load.binds = <<StandaloneCache, DbCacheCustom>>
    /\ Len(spec.binds) = 2
    /\ \A i \in 1..2 : spec.binds[i].service_name = Some(spec.binds[i].name)
    /\ WebIdent \notin DOMAIN bind_map
    /\ DbIdent \in DOMAIN bind_map

\* C18: update_composite never modifies ident, binding_mode, desired_state,
\* config_from, svc_encrypted_password or composite; each of group,
\* application_environment, bldr_url, channel, topology and update_strategy
\* is unchanged when the request does not carry it; when the request
\* specifies no binds, the spec's binds and the BindMap are unchanged.
C18_UpdateFrame ==
    [][(pc = "update" /\ pc' = "updated") =>
        /\ spec'.ident = spec.ident
        /\ spec'.binding_mode = spec.binding_mode
        /\ spec'.desired_state = spec.desired_state
        /\ spec'.config_from = spec.config_from
        /\ spec'.svc_encrypted_password = spec.svc_encrypted_password
        /\ spec'.composite = spec.composite
        /\ ~has(svc_load, "group") => spec'.group = spec.group
        /\ ~has(svc_load, "application_environment") =>
              spec'.application_environment = spec.application_environment
        /\ ~has(svc_load, "bldr_url") => spec'.bldr_url = spec.bldr_url
        /\ ~has(svc_load, "bldr_channel") => spec'.channel = spec.channel
        /\ ~has(svc_load, "topology") => spec'.topology = spec.topology
        /\ ~has(svc_load, "update_strategy") =>
              spec'.update_strategy = spec.update_strategy
        /\ ~has(svc_load, "specified_binds") =>
              /\ spec'.binds = spec.binds
              /\ bind_map' = bind_map
    ]_vars

\* A member updated by a request that carries a channel and a topology and
\* nothing else update_composite reads: the other fields, the binds and the
\* BindMap entry of the member are as before.
C18_Witness ==
    /\ pc = "updated"
    /\ svc_load.specified_binds = None
    /\ svc_load.group = None
    /\ svc_load.bldr_channel # None
    /\ svc_load.topology # None
    /\ spec.channel = "unstable"
    /\ spec.topology = "standalone"
    /\ spec.group = "custom"
    /\ spec.binding_mode = "relaxed"
    /\ spec.config_from = Some("/src/api")
    /\ spec.binds = <<WebDbOther, StandaloneDb>>
    /\ spec.ident \in DOMAIN bind_map

====
